---- MODULE Spec2Model ----
(***************************************************************************)
(* Model of stan/math/opencl/kernel_generator/indexing.hpp: the indexing_  *)
(* node of the OpenCL kernel generator (construction and shape, kernel     *)
(* generation and argument binding with their dedup maps, view and event   *)
(* propagation, unique matrix accesses) and the data-parallel kernel an    *)
(* indexing assignment runs.                                               *)
(***************************************************************************)
EXTENDS Integers, Sequences, FiniteSets, TLC

\* ---------------------------------------------------------------- bounds
\* largest concrete number of rows / columns an index operand reports
MaxDim == 3

\* number of distinct buffers (dedup keys of the load operands)
NumKeys == 3
\* number of top-level visits the assembler makes in one traversal of a tree
MaxVisits == 3

\* number of set_view calls, and of add_write_event calls, on a node
MaxCalls == 3
\* number of distinct events
NumEvents == 2

\* number of elements of the buffer of the matrix a
NumElems == 3
\* number of work-items (output positions) of the kernel
NumItems == 2

\* number of loads in the matrix operand of the indexing node
MaxMatLoads == 2

\* ------------------------------------------------------------- variables
VARIABLES
  \* construction and shape (indexing_::indexing_, rows, cols)
  row_index_rows,   \* row_index.rows()
  row_index_cols,   \* row_index.cols()
  col_index_rows,   \* col_index.rows()
  col_index_cols,   \* col_index.cols()
  ctor,             \* "none" | "ok" | "size_mismatch": outcome of the constructor
  shape,            \* <<>> until queried, then <<rows(), cols()>>
  \* kernel generation and argument binding
  matKey,           \* buffer of the matrix operand (get_arg<0>)
  rowKey,           \* buffer of the row index operand (get_arg<1>)
  colKey,           \* buffer of the column index operand (get_arg<2>)
  is_lhs,           \* the node is the target of the assignment
  phase,            \* "gen" | "bind" | "done" | "idle"
  recompiled,       \* the tree has been compiled before the current pass
  visits,           \* top-level visits of the traversal, in order
  pos,              \* next visit of the binding pass
  generated,        \* outer dedup map of the generation pass
  generated_,       \* indexing_::generated_, the node's private dedup map
  name_gen,         \* name_generator: number of names handed out
  var_name_,        \* var_name_ of the node and of its three operands
  kernel_body,      \* code fragments of the kernel, in order of emission
  res,              \* kernel_parts returned by the last call on the node
  calls,            \* operand calls made by the last call on the node
  bgenerated,       \* outer dedup map of the binding pass
  bound_args,       \* buffers bound to the kernel's arguments, in order
  \* views and events
  requested_view,   \* arguments of the last set_view call on the node
  set_view_calls,   \* per operand: arguments of the set_view calls it received
  events_added,     \* events passed to add_write_event on the node, in order
  read_events,      \* per operand: events it received by add_read_event
  write_events,     \* per operand: events it received by add_write_event
  \* the kernel of indexing(a, b, c) = indexing(a, d, e)
  a,                \* contents of the buffer of a, by linear offset
  tgt,              \* per work-item: offset b[i,j] + rows * c[i,j] it writes
  src,              \* per work-item: offset d[i,j] + rows * e[i,j] it reads
  pc,               \* per work-item: "read" | "write" | "done"
  val,              \* per work-item: the value it has read
  \* unique matrix accesses
  mat_bufs,         \* buffers the matrix operand (get_arg<0>) loads, in order
  row_buf,          \* buffer the row index operand loads
  col_buf,          \* buffer the column index operand loads
  uids,             \* the caller's vector of ids
  id_map,           \* the caller's map from buffers to ids
  next_id,          \* the caller's next unique id
  accessed,         \* per entry of uids: the buffer accessed
  scope,            \* per entry of uids: 0, or n for the matrix operand of
                    \* the n-th call on the indexing node
  index_calls       \* number of calls on the indexing node

ctorVars == <<row_index_rows, row_index_cols, col_index_rows, col_index_cols,
              ctor, shape>>

\* operation_cl::dynamic, the size a broadcast operand reports on its
\* broadcast axis
dynamic == -1

genVars == <<matKey, rowKey, colKey, is_lhs, phase, recompiled, visits, pos,
             generated, generated_, name_gen, var_name_, kernel_body, res,
             calls, bgenerated, bound_args>>

opsVars == <<requested_view, set_view_calls, events_added, read_events,
             write_events>>

kernVars == <<a, tgt, src, pc, val>>

uidVars == <<mat_bufs, row_buf, col_buf, uids, id_map, next_id, accessed,
             scope, index_calls>>

vars == <<ctorVars, genVars, opsVars, kernVars, uidVars>>

nonCtorVars == <<genVars, opsVars, kernVars, uidVars>>
nonGenVars == <<ctorVars, opsVars, kernVars, uidVars>>
nonOpsVars == <<ctorVars, genVars, kernVars, uidVars>>
nonKernVars == <<ctorVars, genVars, opsVars, uidVars>>
nonUidVars == <<ctorVars, genVars, opsVars, kernVars>>

IdleCtor ==
  /\ row_index_rows = dynamic /\ row_index_cols = dynamic
  /\ col_index_rows = dynamic /\ col_index_cols = dynamic
  /\ ctor = "none" /\ shape = <<>>

IdleGen ==
  /\ matKey = 1 /\ rowKey = 1 /\ colKey = 1 /\ is_lhs = FALSE
  /\ phase = "idle" /\ recompiled = FALSE /\ visits = <<>> /\ pos = 0
  /\ generated = <<>> /\ generated_ = <<>> /\ name_gen = 0
  /\ var_name_ = <<>> /\ kernel_body = <<>> /\ res = <<>> /\ calls = <<>>
  /\ bgenerated = <<>> /\ bound_args = <<>>

IdleOps ==
  /\ requested_view = <<>> /\ set_view_calls = <<>> /\ events_added = <<>>
  /\ read_events = <<>> /\ write_events = <<>>

IdleKern ==
  /\ a = <<>> /\ tgt = <<>> /\ src = <<>> /\ pc = <<>> /\ val = <<>>

IdleUid ==
  /\ mat_bufs = <<>> /\ row_buf = 1 /\ col_buf = 1 /\ uids = <<>>
  /\ id_map = <<>> /\ next_id = 0 /\ accessed = <<>> /\ scope = <<>>
  /\ index_calls = 0

\* ============================================================ construction
Sizes == {dynamic} \cup (0 .. MaxDim)

\* check_size_match(function, ..., i, ..., j): passes iff the sizes are equal
check_size_match(i, j) == i = j

\* mutant: the check fires as soon as one of the operands is concrete
indexing_ctor_or(rr, rc, cr, cc) ==
  IF (cr # dynamic \/ rr # dynamic) /\ ~check_size_match(cr, rr)
    THEN "size_mismatch"
  ELSE IF (cc # dynamic \/ rc # dynamic) /\ ~check_size_match(cc, rc)
    THEN "size_mismatch"
  ELSE "ok"

\* indexing_::indexing_(mat, row_index, col_index): the two guarded checks
indexing_ctor(rr, rc, cr, cc) ==
  IF (cr # dynamic /\ rr # dynamic) /\ ~check_size_match(cr, rr)
    THEN "size_mismatch"
  ELSE IF (cc # dynamic /\ rc # dynamic) /\ ~check_size_match(cc, rc)
    THEN "size_mismatch"
  ELSE "ok"

\* std::max
max(m, n) == IF m < n THEN n ELSE m

\* mutant: the shape is taken from the row index alone
rows_of_row_index(rr, cr) == rr

\* indexing_::rows()
rows(rr, cr) == max(rr, cr)

\* indexing_::cols()
cols(rc, cc) == max(rc, cc)

InitCtor ==
  /\ row_index_rows \in Sizes
  /\ row_index_cols \in Sizes
  /\ col_index_rows \in Sizes
  /\ col_index_cols \in Sizes
  /\ ctor = "none"
  /\ shape = <<>>

\* the constructor runs on the two index operands
Construct ==
  /\ ctor = "none"
  /\ ctor' = indexing_ctor(row_index_rows, row_index_cols,
                           col_index_rows, col_index_cols)
  /\ UNCHANGED <<row_index_rows, row_index_cols, col_index_rows,
                 col_index_cols, shape, nonCtorVars>>

\* rows() and cols() of a constructed node
QueryShape ==
  /\ ctor = "ok"
  /\ shape = <<>>
  /\ shape' = <<rows(row_index_rows, col_index_rows),
                cols(row_index_cols, col_index_cols)>>
  /\ UNCHANGED <<row_index_rows, row_index_cols, col_index_rows,
                 col_index_cols, ctor, nonCtorVars>>

NextCtor == Construct \/ QueryShape

InitSpecCtor == InitCtor /\ IdleGen /\ IdleOps /\ IdleKern /\ IdleUid

SpecCtor == InitSpecCtor /\ [][NextCtor]_vars

\* ------------------------------------------------------------------ C2
ConcreteMismatch(m, n) == m # dynamic /\ n # dynamic /\ m # n

\* C2: construction fails with a size mismatch exactly when the row counts
\* of the two index operands are both concrete and differ, or the column
\* counts are both concrete and differ; an axis on which either operand is
\* dynamic is not checked; the failure happens in the constructor, so a
\* node whose construction failed is never queried.
C2_CtorFailsIffConcreteMismatch ==
  /\ ctor # "none" =>
       (ctor = "size_mismatch") <=>
         (\/ ConcreteMismatch(row_index_rows, col_index_rows)
          \/ ConcreteMismatch(row_index_cols, col_index_cols))
  /\ ctor = "size_mismatch" => shape = <<>>

\* a dynamic row axis with differing reported values passes, a concrete
\* column mismatch on the same node fails
C2_Witness ==
  /\ ctor = "size_mismatch"
  /\ row_index_rows = col_index_rows
  /\ row_index_cols = 2 /\ col_index_cols = 3

\* ------------------------------------------------------------------ C3
\* C3 as stated: an index with exactly 1 row (column) against a sibling
\* with n > 1 rows (columns) constructs and the node has n rows (columns).
C3_OneRowBroadcasts ==
  (/\ ctor # "none"
   /\ \/ row_index_rows = 1 /\ col_index_rows > 1
      \/ col_index_rows = 1 /\ row_index_rows > 1
   /\ ~ConcreteMismatch(row_index_cols, col_index_cols))
  => /\ ctor = "ok"
     /\ shape # <<>> => shape[1] = max(row_index_rows, col_index_rows)

\* C3 amended: broadcasting is by a dynamic axis. An index operand that is
\* dynamic on an axis combines with a sibling of any concrete size n on that
\* axis (the axis is not checked) and the node's size there is n, the
\* maximum of the two reported sizes; rows() and cols() are that maximum for
\* every constructed node; an index with exactly 1 row (column) against a
\* sibling with n > 1 fails construction with a size mismatch.
C3_DynamicAxisBroadcasts ==
  /\ shape # <<>> =>
       /\ ctor = "ok"
       /\ shape[1] = max(row_index_rows, col_index_rows)
       /\ shape[2] = max(row_index_cols, col_index_cols)
       /\ (row_index_rows = dynamic /\ col_index_rows # dynamic)
            => shape[1] = col_index_rows
       /\ (col_index_rows = dynamic /\ row_index_rows # dynamic)
            => shape[1] = row_index_rows
       /\ (row_index_cols = dynamic /\ col_index_cols # dynamic)
            => shape[2] = col_index_cols
       /\ (col_index_cols = dynamic /\ row_index_cols # dynamic)
            => shape[2] = row_index_cols
  /\ (/\ ctor # "none"
      /\ \/ row_index_rows = dynamic /\ col_index_rows # dynamic
         \/ col_index_rows = dynamic /\ row_index_rows # dynamic
      /\ ~ConcreteMismatch(row_index_cols, col_index_cols)) => ctor = "ok"
  /\ (/\ ctor # "none"
      /\ \/ row_index_rows = 1 /\ col_index_rows > 1
         \/ col_index_rows = 1 /\ row_index_rows > 1
         \/ row_index_cols = 1 /\ col_index_cols > 1
         \/ col_index_cols = 1 /\ row_index_cols > 1) => ctor = "size_mismatch"

\* a dynamic row index against a 3-row column index: the node has 3 rows
C3_Witness ==
  /\ shape # <<>>
  /\ row_index_rows = dynamic /\ col_index_rows = 3
  /\ shape[1] = 3

\* ============================================ generation and binding
Keys == 1 .. NumKeys

\* the address of the node itself, its key in a dedup map (leaf operands
\* are keyed by their buffers, Keys)
This == 0

Operands == {"mat", "row", "col"}

\* std::map: an empty map, insertion
EmptyMap == [k \in {} |-> ""]
Put(m, k, v) == [x \in DOMAIN m \cup {k} |-> IF x = k THEN v ELSE m[x]]

\* name_generator::generate(): the n-th name of a kernel
generate(n) == "var" \o ToString(n)

\* A leaf operand (a load of buffer key) generating its code against dedup
\* map gen: a buffer already in the map yields an empty fragment and the
\* name recorded there; otherwise a fresh name, a declaration of the buffer
\* argument and an access at [rin, cin].
load_get_kernel_parts(key, gen, cnt, rin, cin, vh, lhs) ==
  IF key \in DOMAIN gen
    THEN [generated |-> gen, name_gen |-> cnt, name |-> gen[key],
          parts |-> <<>>]
    ELSE [generated |-> Put(gen, key, generate(cnt + 1)),
          name_gen |-> cnt + 1, name |-> generate(cnt + 1),
          parts |-> <<[var |-> generate(cnt + 1), key |-> key, ri |-> rin,
                       ci |-> cin, view_handled |-> vh, lhs |-> lhs]>>]

\* A leaf operand binding its buffer against dedup map gen.
load_set_args(key, gen, args) ==
  IF key \in DOMAIN gen
    THEN [generated |-> gen, args |-> args]
    ELSE [generated |-> Put(gen, key, ""), args |-> Append(args, key)]

\* mutant: the names handed to the matrix operand are swapped
mat_index_names_swapped(row_var, col_var) == <<col_var, row_var>>

\* the index names the matrix operand is generated with:
\* mat.get_kernel_parts(generated_, name_gen, row_index.var_name_,
\*                      col_index.var_name_, false)
mat_index_names(row_var, col_var) == <<row_var, col_var>>

\* mutant: a node is never found in the dedup map
already_generated_never(gen) == FALSE

\* generated.count(this) != 0
already_generated(gen) == This \in DOMAIN gen

\* mutant: the matrix operand is generated in the caller's dedup map
get_kernel_parts_outer_scope(gen, priv, cnt, names, rin, cin, vh) ==
  IF already_generated(gen)
    THEN [generated |-> gen, generated_ |-> priv, name_gen |-> cnt,
          var_name_ |-> names, res |-> <<>>, calls |-> <<>>]
    ELSE
      LET r == load_get_kernel_parts(rowKey, Put(gen, This, ""), cnt,
                                     rin, cin, vh, FALSE)
          c == load_get_kernel_parts(colKey, r.generated, r.name_gen,
                                     rin, cin, vh, FALSE)
          ix == mat_index_names(r.name, c.name)
          m == load_get_kernel_parts(matKey, c.generated, c.name_gen,
                                     ix[1], ix[2], FALSE, FALSE)
      IN [generated |-> m.generated, generated_ |-> EmptyMap,
          name_gen |-> m.name_gen,
          var_name_ |-> [o \in Operands \cup {"this"} |->
                           CASE o = "row" -> r.name
                             [] o = "col" -> c.name
                             [] OTHER -> m.name],
          res |-> r.parts \o c.parts \o m.parts,
          calls |-> <<"row", "col", "mat">>]

\* indexing_::get_kernel_parts: state after the call, fragment returned and
\* operand calls made
get_kernel_parts(gen, priv, cnt, names, rin, cin, vh) ==
  IF already_generated(gen)
    THEN [generated |-> gen, generated_ |-> priv, name_gen |-> cnt,
          var_name_ |-> names, res |-> <<>>, calls |-> <<>>]
    ELSE
      LET r == load_get_kernel_parts(rowKey, Put(gen, This, ""), cnt,
                                     rin, cin, vh, FALSE)
          c == load_get_kernel_parts(colKey, r.generated, r.name_gen,
                                     rin, cin, vh, FALSE)
          ix == mat_index_names(r.name, c.name)
          m == load_get_kernel_parts(matKey, EmptyMap, c.name_gen,
                                     ix[1], ix[2], FALSE, FALSE)
      IN [generated |-> c.generated, generated_ |-> m.generated,
          name_gen |-> m.name_gen,
          var_name_ |-> [o \in Operands \cup {"this"} |->
                           CASE o = "row" -> r.name
                             [] o = "col" -> c.name
                             [] OTHER -> m.name],
          res |-> r.parts \o c.parts \o m.parts,
          calls |-> <<"row", "col", "mat">>]

\* indexing_::get_kernel_parts_lhs: the dedup test guards only the marking
\* of the node and the clearing of generated_; the operands are visited on
\* every call
get_kernel_parts_lhs(gen, priv, cnt, names, rin, cin) ==
  LET g0 == IF already_generated(gen) THEN gen ELSE Put(gen, This, "")
      p0 == IF already_generated(gen) THEN priv ELSE EmptyMap
      r == load_get_kernel_parts(rowKey, g0, cnt, rin, cin, FALSE, FALSE)
      c == load_get_kernel_parts(colKey, r.generated, r.name_gen,
                                 rin, cin, FALSE, FALSE)
      ix == mat_index_names(r.name, c.name)
      m == load_get_kernel_parts(matKey, p0, c.name_gen,
                                 ix[1], ix[2], FALSE, TRUE)
  IN [generated |-> c.generated, generated_ |-> m.generated,
      name_gen |-> m.name_gen,
      var_name_ |-> [o \in Operands \cup {"this"} |->
                       CASE o = "row" -> r.name
                         [] o = "col" -> c.name
                         [] OTHER -> m.name],
      res |-> r.parts \o c.parts \o m.parts,
      calls |-> <<"row", "col", "mat">>]

\* mutant: the matrix operand is bound before the index operands
set_args_mat_first(gen, args) ==
  IF already_generated(gen)
    THEN [generated |-> gen, args |-> args]
    ELSE
      LET m == load_set_args(matKey, EmptyMap, args)
          r == load_set_args(rowKey, Put(gen, This, ""), m.args)
          c == load_set_args(colKey, r.generated, r.args)
      IN [generated |-> c.generated, args |-> c.args]

\* indexing_::set_args: the map and the bound arguments after the call
set_args(gen, args) ==
  IF already_generated(gen)
    THEN [generated |-> gen, args |-> args]
    ELSE
      LET r == load_set_args(rowKey, Put(gen, This, ""), args)
          c == load_set_args(colKey, r.generated, r.args)
          m == load_set_args(matKey, EmptyMap, c.args)
      IN [generated |-> c.generated, args |-> m.args]

InitGen ==
  /\ matKey \in Keys /\ rowKey \in Keys /\ colKey \in Keys
  /\ is_lhs \in BOOLEAN
  /\ phase = "gen" /\ recompiled = FALSE /\ visits = <<>> /\ pos = 1
  /\ generated = EmptyMap /\ generated_ = EmptyMap /\ name_gen = 0
  /\ var_name_ = [o \in Operands \cup {"this"} |-> ""]
  /\ kernel_body = <<>> /\ res = <<>> /\ calls = <<>>
  /\ bgenerated = EmptyMap /\ bound_args = <<>>

keyVars == <<matKey, rowKey, colKey, is_lhs, nonGenVars>>

\* the traversal reaches a load of buffer k outside the indexing node; it is
\* generated with the loop indices in the outer dedup map
GenLoad(k) ==
  /\ phase = "gen" /\ Len(visits) < MaxVisits
  /\ LET l == load_get_kernel_parts(k, generated, name_gen, "i", "j",
                                    FALSE, FALSE)
     IN /\ generated' = l.generated
        /\ name_gen' = l.name_gen
        /\ kernel_body' = kernel_body \o l.parts
  /\ visits' = Append(visits, k)
  /\ UNCHANGED <<keyVars, phase, recompiled, pos, generated_, var_name_, res, calls,
                 bgenerated, bound_args>>

\* the traversal reaches the indexing node on the right-hand side
GenIndexing(vh) ==
  /\ phase = "gen" /\ Len(visits) < MaxVisits /\ ~is_lhs
  /\ LET g == get_kernel_parts(generated, generated_, name_gen, var_name_,
                               "i", "j", vh)
     IN /\ generated' = g.generated
        /\ generated_' = g.generated_
        /\ name_gen' = g.name_gen
        /\ var_name_' = g.var_name_
        /\ res' = g.res
        /\ calls' = g.calls
        /\ kernel_body' = kernel_body \o g.res
  /\ visits' = Append(visits, This)
  /\ UNCHANGED <<keyVars, phase, recompiled, pos, bgenerated, bound_args>>

\* the traversal reaches the indexing node as the assignment target
GenIndexingLhs ==
  /\ phase = "gen" /\ Len(visits) < MaxVisits /\ is_lhs
  /\ LET g == get_kernel_parts_lhs(generated, generated_, name_gen,
                                   var_name_, "i", "j")
     IN /\ generated' = g.generated
        /\ generated_' = g.generated_
        /\ name_gen' = g.name_gen
        /\ var_name_' = g.var_name_
        /\ res' = g.res
        /\ calls' = g.calls
        /\ kernel_body' = kernel_body \o g.res
  /\ visits' = Append(visits, This)
  /\ UNCHANGED <<keyVars, phase, recompiled, pos, bgenerated, bound_args>>

\* generation is over; the binding pass walks the same tree
StartBind ==
  /\ phase = "gen"
  /\ phase' = IF visits = <<>> THEN "done" ELSE "bind"
  /\ pos' = 1
  /\ UNCHANGED <<keyVars, recompiled, visits, generated, generated_, name_gen,
                 var_name_, kernel_body, res, calls, bgenerated, bound_args>>

\* the binding pass reaches its next node: a load, or the indexing node
BindVisit ==
  /\ phase = "bind"
  /\ LET b == IF visits[pos] = This
                THEN set_args(bgenerated, bound_args)
                ELSE load_set_args(visits[pos], bgenerated, bound_args)
     IN /\ bgenerated' = b.generated
        /\ bound_args' = b.args
  /\ pos' = pos + 1
  /\ phase' = IF pos = Len(visits) THEN "done" ELSE "bind"
  /\ UNCHANGED <<keyVars, recompiled, visits, generated, generated_, name_gen,
                 var_name_, kernel_body, res, calls>>

\* the same tree is compiled again: new outer maps and name generator; the
\* node keeps generated_ and the var_name_ fields
Recompile ==
  /\ phase = "done"
  /\ phase' = "gen" /\ recompiled' = TRUE /\ visits' = <<>> /\ pos' = 1
  /\ generated' = EmptyMap /\ name_gen' = 0 /\ kernel_body' = <<>>
  /\ res' = <<>> /\ calls' = <<>>
  /\ bgenerated' = EmptyMap /\ bound_args' = <<>>
  /\ UNCHANGED <<keyVars, generated_, var_name_>>

NextGen ==
  \/ \E k \in Keys : GenLoad(k)
  \/ \E vh \in BOOLEAN : GenIndexing(vh)
  \/ GenIndexingLhs
  \/ StartBind
  \/ BindVisit
  \/ Recompile

Init == IdleCtor /\ InitGen /\ IdleOps /\ IdleKern /\ IdleUid

Next == NextGen

Spec == Init /\ [][Next]_vars

\* ------------------------------------------------ the generated kernel
\* Contents of the buffers, rows and columns numbered from 0 (row r is
\* Buf(k)[r + 1]).  Buffer 2 holds the row indices [[0,1],[2,0]] and buffer
\* 3 the column indices [[0,0],[1,2]] in its leading 2x2 block; every entry
\* is a valid index of a 3x3 matrix, so any buffer can serve as an index.
Buf(k) ==
  CASE k = 1 -> << <<0, 1, 2>>, <<2, 0, 1>>, <<1, 2, 0>> >>
    [] k = 2 -> << <<0, 1, 2>>, <<2, 0, 0>>, <<1, 1, 2>> >>
    [] k = 3 -> << <<0, 0, 1>>, <<1, 2, 0>>, <<2, 1, 1>> >>
    [] OTHER -> << <<1, 2, 0>>, <<0, 0, 2>>, <<2, 1, 0>> >>

At(k, r, c) == Buf(k)[r + 1][c + 1]

\* output positions of the kernel
Positions == (0 .. 1) \X (0 .. 1)

\* One work-item running the fragments of the kernel body in order: a load
\* fragment defines its variable as buffer[ri, ci], with ri and ci the
\* values of the index variables it was generated with.
RECURSIVE run_body(_, _)
run_body(body, env) ==
  IF body = <<>> THEN env
  ELSE LET f == Head(body)
       IN run_body(Tail(body),
                   IF f.lhs THEN env
                   ELSE Put(env, f.var, At(f.key, env[f.ri], env[f.ci])))

\* values of the kernel's variables in the work-item of position (i, j)
work_item(i, j) ==
  run_body(kernel_body, [n \in {"i", "j"} |-> IF n = "i" THEN i ELSE j])

\* buffers of the arguments the kernel declares, in order
kernel_args == [n \in 1 .. Len(kernel_body) |-> kernel_body[n].key]

Count(seq, k) == Cardinality({n \in 1 .. Len(seq) : seq[n] = k})

Bit(b) == IF b THEN 1 ELSE 0

\* ------------------------------------------------------------------ C1
\* C1: once get_kernel_parts has generated the node, the kernel holds an
\* access to the matrix buffer whose row index is the row-index operand's
\* variable and whose column index is the column-index operand's variable,
\* the node's variable is that access, and in every work-item (i, j) its
\* value is mat[row_index[i,j], col_index[i,j]].
C1_ReadAccessIsMatAtRowCol ==
  (~is_lhs /\ This \in DOMAIN generated) =>
    /\ \E n \in 1 .. Len(kernel_body) :
         /\ kernel_body[n].var = var_name_["this"]
         /\ kernel_body[n].key = matKey
         /\ kernel_body[n].ri = var_name_["row"]
         /\ kernel_body[n].ci = var_name_["col"]
    /\ \A p \in Positions :
         work_item(p[1], p[2])[var_name_["this"]]
           = At(matKey, At(rowKey, p[1], p[2]), At(colKey, p[1], p[2]))

\* the example: result[0,0] = mat[0,0] = 0 and result[1,1] = mat[0,2] = 2
C1_Witness ==
  /\ ~is_lhs /\ This \in DOMAIN generated
  /\ matKey = 1 /\ rowKey = 2 /\ colKey = 3
  /\ work_item(0, 0)[var_name_["this"]] = At(1, 0, 0)
  /\ work_item(1, 1)[var_name_["this"]] = At(1, 0, 2)
  /\ At(1, 0, 2) # At(1, 2, 0)

\* ------------------------------------------------------------------ C4
\* C4: a call of get_kernel_parts on a node the dedup map already holds
\* returns an empty fragment, calls none of the operands, leaves generated_,
\* the dedup map, the name generator and every var_name_ as they were.
C4_SecondCallIsEmpty ==
  [][(/\ phase = "gen" /\ ~is_lhs
      /\ This \in DOMAIN generated
      /\ visits' = Append(visits, This))
     => /\ res' = <<>>
        /\ calls' = <<>>
        /\ generated_' = generated_
        /\ generated' = generated
        /\ name_gen' = name_gen
        /\ var_name_' = var_name_
        /\ kernel_body' = kernel_body]_vars

\* the node was visited twice in one generation pass
C4_Witness ==
  /\ ~is_lhs /\ phase = "gen"
  /\ Len(visits) = 2 /\ visits[1] = This /\ visits[2] = This
  /\ res = <<>> /\ calls = <<>>
  /\ generated_ # EmptyMap /\ var_name_["this"] # ""

\* ------------------------------------------------------------------ C5
\* C5: when both passes over a tree are done, the buffers bound by the
\* binding pass are, in order and number, the buffers of the arguments the
\* generation pass declared.
C5_BoundArgsEqualDeclaredArgs ==
  phase = "done" => bound_args = kernel_args

\* a tree where the row index is also loaded before the indexing node: it is
\* skipped inside the node in both passes, column index and matrix are not
C5_Witness ==
  /\ phase = "done"
  /\ visits = <<rowKey, This>>
  /\ Cardinality({matKey, rowKey, colKey}) = 3
  /\ bound_args = <<rowKey, colKey, matKey>>
  /\ kernel_args = <<rowKey, colKey, matKey>>

\* ----------------------------------------------------------------- C10
\* C10: the matrix operand is generated and bound in a scope of the node's
\* own, empty at the start of each pass.  A buffer is declared (bound) once
\* if the outer map holds it, and the matrix buffer once more inside a
\* generated (bound) indexing node, whatever the outer map holds; the
\* matrix operand's name is recorded in generated_ only, never in the outer
\* map; the index operands get the names the outer map records.
C10_MatrixInPrivateScope ==
  /\ \A k \in Keys :
       /\ Count(kernel_args, k)
            = Bit(k \in DOMAIN generated)
              + Bit(k = matKey /\ This \in DOMAIN generated)
       /\ Count(bound_args, k)
            = Bit(k \in DOMAIN bgenerated)
              + Bit(k = matKey /\ This \in DOMAIN bgenerated)
  /\ This \in DOMAIN generated =>
       /\ DOMAIN generated_ = {matKey}
       /\ generated_[matKey] = var_name_["mat"]
       /\ \A k \in DOMAIN generated : generated[k] # var_name_["mat"]
       /\ {rowKey, colKey} \subseteq DOMAIN generated
       /\ var_name_["row"] = generated[rowKey]
       /\ var_name_["col"] = generated[colKey]

\* second compilation of a tree that loads the matrix buffer before the
\* indexing node: the buffer is declared twice and bound twice
C10_Witness ==
  /\ recompiled /\ phase = "done"
  /\ visits = <<matKey, This>>
  /\ matKey \notin {rowKey, colKey}
  /\ Count(kernel_args, matKey) = 2
  /\ Count(bound_args, matKey) = 2
  /\ matKey \in DOMAIN generated

\* ====================================================== views and events
\* std::numeric_limits<int>::max() and min()
INT_MAX == 2147483647
INT_MIN == -INT_MAX - 1

\* diagonal indices a caller may pass to set_view
ViewArgs == {INT_MIN, 0, INT_MAX}

NoCalls == [o \in Operands |-> <<>>]

\* mutant: the requested range is handed on to the matrix operand
set_view_forward(told, bottom_diagonal, top_diagonal, bottom_zero_diagonal, top_zero_diagonal) ==
  [told EXCEPT !["mat"] = Append(@, <<bottom_diagonal, top_diagonal,
                                      bottom_zero_diagonal,
                                      top_zero_diagonal>>)]

\* indexing_::set_view: the set_view calls the operands have received after
\* the call
set_view(told, bottom_diagonal, top_diagonal, bottom_zero_diagonal, top_zero_diagonal) ==
  [told EXCEPT !["mat"] = Append(@, <<INT_MIN, INT_MAX, INT_MIN, INT_MAX>>)]

\* mutant: the event is a write event of all three operands
add_write_event_all(ev, e) ==
  [read |-> ev.read,
   write |-> [o \in Operands |-> Append(ev.write[o], e)]]

\* indexing_::add_write_event: the events of the operands after the call
add_write_event(ev, e) ==
  [read |-> [ev.read EXCEPT !["row"] = Append(@, e),
                            !["col"] = Append(@, e)],
   write |-> [ev.write EXCEPT !["mat"] = Append(@, e)]]

InitOps ==
  /\ requested_view = <<>>
  /\ set_view_calls = NoCalls
  /\ events_added = <<>>
  /\ read_events = NoCalls
  /\ write_events = NoCalls

SetView(bd, td, bzd, tzd) ==
  /\ Len(set_view_calls["mat"]) < MaxCalls
  /\ requested_view' = <<bd, td, bzd, tzd>>
  /\ set_view_calls' = set_view(set_view_calls, bd, td, bzd, tzd)
  /\ UNCHANGED <<events_added, read_events, write_events, nonOpsVars>>

AddWriteEvent(e) ==
  /\ Len(events_added) < MaxCalls
  /\ events_added' = Append(events_added, e)
  /\ LET ev == add_write_event([read |-> read_events,
                                write |-> write_events], e)
     IN /\ read_events' = ev.read
        /\ write_events' = ev.write
  /\ UNCHANGED <<requested_view, set_view_calls, nonOpsVars>>

NextOps ==
  \/ \E bd, td, bzd, tzd \in ViewArgs : SetView(bd, td, bzd, tzd)
  \/ \E e \in 1 .. NumEvents : AddWriteEvent(e)

InitSpecOps == IdleCtor /\ IdleGen /\ InitOps /\ IdleKern /\ IdleUid

SpecOps == InitSpecOps /\ [][NextOps]_vars

\* ------------------------------------------------------------------ C8
\* C8: every set_view call the matrix operand has received carries the
\* unrestricted range (minimum, maximum, minimum, maximum), whatever was
\* requested of the node, it received one per call on the node, and the
\* index operands have received none.
C8_SetViewForcesEntire ==
  /\ \A n \in 1 .. Len(set_view_calls["mat"]) :
       set_view_calls["mat"][n] = <<INT_MIN, INT_MAX, INT_MIN, INT_MAX>>
  /\ requested_view # <<>> => set_view_calls["mat"] # <<>>
  /\ set_view_calls["row"] = <<>>
  /\ set_view_calls["col"] = <<>>

\* only the main diagonal was requested
C8_Witness ==
  /\ requested_view = <<0, 0, 0, 0>>
  /\ Len(set_view_calls["mat"]) = 2

\* ------------------------------------------------------------------ C9
\* C9: the events passed to add_write_event are, each once and in order,
\* the read events of the row index, the read events of the column index
\* and the write events of the matrix; the index operands have no write
\* event and the matrix no read event from these calls.
C9_WriteEventModes ==
  /\ read_events["row"] = events_added
  /\ read_events["col"] = events_added
  /\ write_events["mat"] = events_added
  /\ write_events["row"] = <<>>
  /\ write_events["col"] = <<>>
  /\ read_events["mat"] = <<>>

C9_Witness ==
  /\ events_added = <<1, 2>>
  /\ write_events["mat"] = <<1, 2>>
  /\ read_events["row"] = <<1, 2>>

\* ============================= the kernel of an aliasing assignment
\* indexing(a, b, c) = indexing(a, d, e) in one kernel: the work-item of
\* output position p reads the element of a that (d, e) select at p and
\* writes it to the element that (b, c) select at p.  An element is named by
\* its offset row + rows * col in the buffer of a.
Elems == 0 .. (NumElems - 1)
Items == 1 .. NumItems

\* mutant: the work-item reads through the indices of the target
source_offset_of_target(p) == tgt[p]

\* the element work-item p reads: a[d[p], e[p]]
source_offset(p) == src[p]

\* the element work-item p writes: a[b[p], c[p]]
target_offset(p) == tgt[p]

InitKern ==
  /\ a = [x \in Elems |-> x + 1]
  /\ tgt \in [Items -> Elems]
  /\ src \in [Items -> Elems]
  /\ pc = [p \in Items |-> "read"]
  /\ val = [p \in Items |-> 0]

\* work-item p evaluates the right-hand side
ItemRead(p) ==
  /\ pc[p] = "read"
  /\ val' = [val EXCEPT ![p] = a[source_offset(p)]]
  /\ pc' = [pc EXCEPT ![p] = "write"]
  /\ UNCHANGED <<a, tgt, src, nonKernVars>>

\* work-item p stores to the left-hand side
ItemWrite(p) ==
  /\ pc[p] = "write"
  /\ a' = [a EXCEPT ![target_offset(p)] = val[p]]
  /\ pc' = [pc EXCEPT ![p] = "done"]
  /\ UNCHANGED <<tgt, src, val, nonKernVars>>

NextKern == \E p \in Items : ItemRead(p) \/ ItemWrite(p)

InitSpecKern == IdleCtor /\ IdleGen /\ IdleOps /\ InitKern /\ IdleUid

SpecKern == InitSpecKern /\ [][NextKern]_vars

\* the reference: the output positions evaluated one after the other, in
\* order, each reading its source element and writing its target element
RECURSIVE sequential(_, _)
sequential(m, p) ==
  IF p > NumItems THEN m
  ELSE sequential([m EXCEPT ![tgt[p]] = m[src[p]]], p + 1)

Reference == sequential([x \in Elems |-> x + 1], 1)

AllDone == \A p \in Items : pc[p] = "done"
SameIndices == \A p \in Items : tgt[p] = src[p]
NoCommonElement == {tgt[p] : p \in Items} \cap {src[p] : p \in Items} = {}
DistinctTargets == \A p, q \in Items : tgt[p] = tgt[q] => p = q

\* ------------------------------------------------------------------ C6
\* C6 as stated: if both indexings use the same indices, or index no common
\* element of a, the kernel leaves a as the sequential reference does, in
\* every interleaving of the work-items.
C6_AliasFreeMatchesSequential ==
  (AllDone /\ (SameIndices \/ NoCommonElement)) => a = Reference

\* C6 amended: if both indexings use the same indices, or they index no
\* common element of a and no element of a is the target of two output
\* positions, the kernel leaves a as the sequential reference does, in every
\* interleaving of the work-items.
C6_AliasFreeDistinctTargetsMatchesSequential ==
  (AllDone /\ (SameIndices \/ (NoCommonElement /\ DistinctTargets)))
    => a = Reference

\* two work-items copy elements 2 and 1 to elements 0 and 1: the second
\* reads and writes the same element, the first a different pair
C6_Witness ==
  /\ AllDone
  /\ NoCommonElement /\ DistinctTargets /\ ~SameIndices
  /\ a # [x \in Elems |-> x + 1]
  /\ a = Reference

\* ================================================ unique matrix accesses
\* A load of buffer key collecting its access into u = [uids, id_map,
\* next_id]: a buffer already in id_map reports the id recorded there;
\* otherwise it takes next_id, records it and advances next_id.
load_get_unique_matrix_accesses(key, u) ==
  IF key \in DOMAIN u.id_map
    THEN [u EXCEPT !.uids = Append(@, u.id_map[key])]
    ELSE [uids |-> Append(u.uids, u.next_id),
          id_map |-> Put(u.id_map, key, u.next_id),
          next_id |-> u.next_id + 1]

\* the matrix operand: its loads collect their accesses one after the other
RECURSIVE mat_get_unique_matrix_accesses(_, _)
mat_get_unique_matrix_accesses(bufs, u) ==
  IF bufs = <<>> THEN u
  ELSE mat_get_unique_matrix_accesses(
         Tail(bufs), load_get_unique_matrix_accesses(Head(bufs), u))

\* mutant: next_id is not advanced past the ids of the matrix operand
get_unique_matrix_accesses_no_advance(u) ==
  LET u2 == mat_get_unique_matrix_accesses(
              mat_bufs, [uids |-> <<>>, id_map |-> EmptyMap, next_id |-> 0])
      u1 == [uids |-> u.uids \o [n \in 1 .. Len(u2.uids) |->
                                   u2.uids[n] + u.next_id],
             id_map |-> u.id_map,
             next_id |-> u.next_id]
  IN load_get_unique_matrix_accesses(
       col_buf, load_get_unique_matrix_accesses(row_buf, u1))

\* mutant: the index operands are collected before the matrix operand
get_unique_matrix_accesses_indices_first(u) ==
  LET u0 == load_get_unique_matrix_accesses(
              col_buf, load_get_unique_matrix_accesses(row_buf, u))
      u2 == mat_get_unique_matrix_accesses(
              mat_bufs, [uids |-> <<>>, id_map |-> EmptyMap, next_id |-> 0])
  IN [uids |-> u0.uids \o [n \in 1 .. Len(u2.uids) |->
                             u2.uids[n] + u0.next_id],
      id_map |-> u0.id_map,
      next_id |-> u0.next_id + u2.next_id]

\* indexing_::get_unique_matrix_accesses
get_unique_matrix_accesses(u) ==
  LET u2 == mat_get_unique_matrix_accesses(
              mat_bufs, [uids |-> <<>>, id_map |-> EmptyMap, next_id |-> 0])
      u1 == [uids |-> u.uids \o [n \in 1 .. Len(u2.uids) |->
                                   u2.uids[n] + u.next_id],
             id_map |-> u.id_map,
             next_id |-> u.next_id + u2.next_id]
  IN load_get_unique_matrix_accesses(
       col_buf, load_get_unique_matrix_accesses(row_buf, u1))

NonEmptySeqs(S, n) == UNION {[1 .. l -> S] : l \in 1 .. n}

InitUid ==
  /\ mat_bufs \in NonEmptySeqs(Keys, MaxMatLoads)
  /\ row_buf \in Keys
  /\ col_buf \in Keys
  /\ uids = <<>> /\ id_map = EmptyMap /\ next_id = 0
  /\ accessed = <<>> /\ scope = <<>> /\ index_calls = 0

Visited == Len(uids) - index_calls * (Len(mat_bufs) + 1)

\* the traversal reaches a load of buffer k outside the indexing node
UidLoad(k) ==
  /\ Visited < MaxVisits
  /\ LET u == load_get_unique_matrix_accesses(
                k, [uids |-> uids, id_map |-> id_map, next_id |-> next_id])
     IN /\ uids' = u.uids
        /\ id_map' = u.id_map
        /\ next_id' = u.next_id
  /\ accessed' = Append(accessed, k)
  /\ scope' = Append(scope, 0)
  /\ UNCHANGED <<mat_bufs, row_buf, col_buf, index_calls, nonUidVars>>

\* the traversal reaches the indexing node
UidIndexing ==
  /\ Visited < MaxVisits
  /\ LET u == get_unique_matrix_accesses(
                [uids |-> uids, id_map |-> id_map, next_id |-> next_id])
     IN /\ uids' = u.uids
        /\ id_map' = u.id_map
        /\ next_id' = u.next_id
  /\ accessed' = accessed \o mat_bufs \o <<row_buf, col_buf>>
  /\ scope' = scope \o [n \in 1 .. Len(mat_bufs) |-> index_calls + 1]
                    \o <<0, 0>>
  /\ index_calls' = index_calls + 1
  /\ UNCHANGED <<mat_bufs, row_buf, col_buf, nonUidVars>>

NextUid ==
  \/ \E k \in Keys : UidLoad(k)
  \/ UidIndexing

InitSpecUid == IdleCtor /\ IdleGen /\ IdleOps /\ IdleKern /\ InitUid

SpecUid == InitSpecUid /\ [][NextUid]_vars

\* ------------------------------------------------------------------ C7
\* C7 as stated: two accesses have the same identifier exactly when they are
\* accesses to the same buffer.
C7_IdsOneToOneWithBuffers ==
  \A m, n \in 1 .. Len(uids) :
    (uids[m] = uids[n]) <=> (accessed[m] = accessed[n])

\* C7 amended: identifiers correspond one-to-one with pairs of a buffer and
\* a scope, the matrix operand of each visit of an indexing node being a
\* scope of its own and the rest of the tree one scope.  Accesses to
\* different buffers get different identifiers; accesses to one buffer get
\* the same identifier if both are outside matrix operands or both inside
\* the same one, and different identifiers otherwise.
C7_IdsOneToOneWithBufferAndScope ==
  \A m, n \in 1 .. Len(uids) :
    (uids[m] = uids[n])
      <=> (accessed[m] = accessed[n] /\ scope[m] = scope[n])

\* indexing(x, x, c) with x also loaded outside the node: the index and the
\* outside load share an identifier, the matrix operand has another
C7_Witness ==
  /\ index_calls = 1
  /\ row_buf \in {mat_bufs[n] : n \in 1 .. Len(mat_bufs)}
  /\ row_buf # col_buf
  /\ \E m, n \in 1 .. Len(uids) :
       /\ accessed[m] = row_buf /\ accessed[n] = row_buf
       /\ scope[m] = 1 /\ scope[n] = 0
       /\ uids[m] # uids[n]
  /\ \E m, n \in 1 .. Len(uids) :
       /\ m # n
       /\ accessed[m] = row_buf /\ accessed[n] = row_buf
       /\ scope[m] = 0 /\ scope[n] = 0
       /\ uids[m] = uids[n]

\* ----------------------------------------------------------------- C11
\* C11: a call on the indexing node with next_id = n, every identifier the
\* caller has so far being below n, appends the matrix operand's
\* identifiers first; they fill [n, n + k), k the number of distinct buffers
\* of the matrix operand (the identifiers it allocates from 0 with an empty
\* map), equal exactly for equal buffers.  The identifiers of the row and
\* column index follow: the one the caller's map holds for the buffer, else
\* the next fresh one from n + k on; none lies in [n, n + k), and next_id
\* ends at n + k plus the number of index buffers new to the caller's map.
C11_MatrixIdsFirstInFreshRange ==
  [][(/\ index_calls' = index_calls + 1
      /\ \A i \in 1 .. Len(uids) : uids[i] < next_id)
     => LET n == next_id
            L == Len(uids)
            M == Len(mat_bufs)
            k == Cardinality({mat_bufs[i] : i \in 1 .. M})
            rowNew == row_buf \notin DOMAIN id_map
            colNew == col_buf \notin DOMAIN id_map /\ col_buf # row_buf
        IN /\ Len(uids') = L + M + 2
           /\ \A i \in 1 .. L : uids'[i] = uids[i]
           /\ {uids'[L + i] : i \in 1 .. M} = n .. (n + k - 1)
           /\ \A i, j \in 1 .. M :
                (uids'[L + i] = uids'[L + j]) <=> (mat_bufs[i] = mat_bufs[j])
           /\ uids'[L + M + 1] = IF rowNew THEN n + k ELSE id_map[row_buf]
           /\ uids'[L + M + 2] =
                IF colNew THEN n + k + Bit(rowNew)
                ELSE IF col_buf = row_buf THEN uids'[L + M + 1]
                ELSE id_map[col_buf]
           /\ uids'[L + M + 1] \notin n .. (n + k - 1)
           /\ uids'[L + M + 2] \notin n .. (n + k - 1)
           /\ next_id' = n + k + Bit(rowNew) + Bit(colNew)]_vars

\* buffer 1 is loaded (id 0), then indexing(1 and 2, 1, 3) is visited with
\* n = 1 and k = 2: the matrix gets 1 and 2, the row index the caller's 0,
\* the column index the fresh 3
C11_Witness ==
  /\ mat_bufs = <<1, 2>> /\ row_buf = 1 /\ col_buf = 3
  /\ accessed = <<1, 1, 2, 1, 3>>
  /\ scope = <<0, 1, 1, 0, 0>>
  /\ uids = <<0, 1, 2, 0, 3>>
  /\ next_id = 4

\* ----------------------------------------------------------------- C12
\* C12: a call of get_kernel_parts_lhs on a node the outer dedup map already
\* holds calls none of the operands (so neither the outer map nor the
\* private scope left by the first call is used), returns an empty fragment
\* and leaves every var_name_ as it was.
C12_SecondLhsCallExits ==
  [][(/\ phase = "gen" /\ is_lhs
      /\ This \in DOMAIN generated
      /\ visits' = Append(visits, This))
     => /\ calls' = <<>>
        /\ res' = <<>>
        /\ var_name_' = var_name_]_vars

====
